---- MODULE Spec2Model ----
(***************************************************************************)
(* Flutter version checker (src/src/index.js): the version functions       *)
(* parseFlutterVersion / compareVersions / generateNextVersion and the     *)
(* run() state machine that reconciles pubspec.yaml with the latest git    *)
(* tag.                                                                    *)
(*                                                                         *)
(* A JavaScript string is a sequence of one-character strings.  A          *)
(* JavaScript number is a record [nan, n]; only NaN and the non-negative   *)
(* integers occur (the alphabet has no minus sign), and they stay far      *)
(* below 2^53, so that x + 1 is exact.  The declared version is a string.  *)
(***************************************************************************)
EXTENDS Integers, Sequences, FiniteSets, TLC

(***************************************************************************)
(* Bounds of the model.                                                    *)
(***************************************************************************)
\* version components of the well-formed pool range over 0..MaxNum
MaxNum == 1
\* runs of the action started per behaviour
MaxRuns == 2

(***************************************************************************)
(* Strings.                                                                *)
(***************************************************************************)
DigitChars == <<"0", "1", "2", "3", "4", "5", "6", "7", "8", "9">>

Digits == {DigitChars[i] : i \in 1..Len(DigitChars)}

IsDigit(c) == c \in Digits

DigitVal(c) == (CHOOSE i \in 1..Len(DigitChars) : DigitChars[i] = c) - 1

\* null / undefined: a value that is no string of the alphabet
null == <<"null">>

\* JavaScript truthiness of a string-or-null value (!x)
Falsy(s) == s = null \/ s = <<>>

NaN == [nan |-> TRUE, n |-> 0]

Num(k) == [nan |-> FALSE, n |-> k]

\* String(number), as a template literal `${x}` renders it
RECURSIVE DecStr(_)
DecStr(k) == IF k < 10 THEN <<DigitChars[k + 1]>>
             ELSE DecStr(k \div 10) \o <<DigitChars[(k % 10) + 1]>>

ToStr(x) == IF x.nan THEN <<"N", "a", "N">> ELSE DecStr(x.n)

\* the value of a run of digits
RECURSIVE DigitsVal(_)
DigitsVal(s) == IF s = <<>> THEN 0
                ELSE 10 * DigitsVal(SubSeq(s, 1, Len(s) - 1)) + DigitVal(s[Len(s)])

\* the longest prefix of s made of digits
RECURSIVE DigitPrefix(_)
DigitPrefix(s) == IF s = <<>> \/ ~IsDigit(s[1]) THEN <<>>
                  ELSE <<s[1]>> \o DigitPrefix(Tail(s))

\* parseInt(s, 10); s = null stands for undefined (a missing array element)
parseInt(s) == IF s = null \/ DigitPrefix(s) = <<>> THEN NaN
               ELSE Num(DigitsVal(DigitPrefix(s)))

\* String.prototype.split(sep) for a one-character separator
RECURSIVE split(_, _)
split(s, sep) ==
  IF \A i \in 1..Len(s) : s[i] # sep THEN <<s>>
  ELSE LET i == CHOOSE j \in 1..Len(s) :
                  s[j] = sep /\ \A k \in 1..(j - 1) : s[k] # sep
       IN <<SubSeq(s, 1, i - 1)>> \o split(SubSeq(s, i + 1, Len(s)), sep)

\* parts[i] of a JavaScript array (0-based), undefined beyond its end
At(arr, i) == IF i + 1 <= Len(arr) THEN arr[i + 1] ELSE null

\* x || 0 for a number
OrZero(x) == IF x.nan THEN Num(0) ELSE x

(***************************************************************************)
(* parseFlutterVersion                                                     *)
(***************************************************************************)
buildNumberOf(parts) ==
  IF Falsy(At(parts, 1)) THEN Num(0) ELSE parseInt(At(parts, 1))

\* the null result of parseFlutterVersion, as a record of the same shape
nullParsed == [major |-> NaN, minor |-> NaN, patch |-> NaN, build |-> NaN,
               base |-> null, full |-> null]

\* parseFlutterVersion returning null for a string without build counter
parseFlutterVersionWithBuild(versionStr) ==
  IF Falsy(versionStr) \/ Len(split(versionStr, "+")) < 2 THEN nullParsed
  ELSE LET parts     == split(versionStr, "+")
           baseParts == split(parts[1], ".")
       IN [major |-> OrZero(parseInt(At(baseParts, 0))),
           minor |-> OrZero(parseInt(At(baseParts, 1))),
           patch |-> OrZero(parseInt(At(baseParts, 2))),
           build |-> buildNumberOf(parts),
           base  |-> parts[1],
           full  |-> versionStr]

parseFlutterVersion(versionStr) ==
  IF Falsy(versionStr) THEN nullParsed
  ELSE LET parts     == split(versionStr, "+")
           baseParts == split(parts[1], ".")
       IN [major |-> OrZero(parseInt(At(baseParts, 0))),
           minor |-> OrZero(parseInt(At(baseParts, 1))),
           patch |-> OrZero(parseInt(At(baseParts, 2))),
           build |-> buildNumberOf(parts),
           base  |-> parts[1],
           full  |-> versionStr]

(***************************************************************************)
(* semver.compare(a, b) of the semver package, strict mode: new SemVer(v)  *)
(* raises TypeError unless v is [v]MAJOR.MINOR.PATCH with numeric          *)
(* identifiers without leading zeros (the alphabet has no '-', and the     *)
(* base never holds a '+').                                                *)
(***************************************************************************)
NumericIdentifier(s) ==
  /\ s # <<>>
  /\ \A i \in 1..Len(s) : IsDigit(s[i])
  /\ (Len(s) > 1 => s[1] # "0")

StripV(s) == IF s # <<>> /\ s[1] = "v" THEN Tail(s) ELSE s

SemverValid(s) ==
  LET ids == split(StripV(s), ".")
  IN Len(ids) = 3 /\ \A i \in 1..3 : NumericIdentifier(ids[i])

SemverTriple(s) ==
  LET ids == split(StripV(s), ".")
  IN <<DigitsVal(ids[1]), DigitsVal(ids[2]), DigitsVal(ids[3])>>

semverCompare(a, b) ==
  LET x == SemverTriple(a)
      y == SemverTriple(b)
  IN IF x[1] # y[1] THEN (IF x[1] > y[1] THEN 1 ELSE -1)
     ELSE IF x[2] # y[2] THEN (IF x[2] > y[2] THEN 1 ELSE -1)
     ELSE IF x[3] # y[3] THEN (IF x[3] > y[3] THEN 1 ELSE -1)
     ELSE 0

(***************************************************************************)
(* compareVersions: compareRaises says whether the call raises, and        *)
(* compareVersions is its return value when it does not.                   *)
(***************************************************************************)
\* JavaScript > and < on numbers: false when either side is NaN
JsGT(x, y) == ~x.nan /\ ~y.nan /\ x.n > y.n

JsLT(x, y) == ~x.nan /\ ~y.nan /\ x.n < y.n

compareRaises(current, previous) ==
  /\ parseFlutterVersion(current) # nullParsed
  /\ parseFlutterVersion(previous) # nullParsed
  /\ \/ ~SemverValid(parseFlutterVersion(current).base)
     \/ ~SemverValid(parseFlutterVersion(previous).base)

compareVersions(current, previous) ==
  LET currentParsed  == parseFlutterVersion(current)
      previousParsed == parseFlutterVersion(previous)
  IN IF currentParsed = nullParsed \/ previousParsed = nullParsed THEN 0
     ELSE LET baseComparison == semverCompare(currentParsed.base, previousParsed.base)
          IN IF baseComparison # 0 THEN baseComparison
             ELSE IF JsGT(currentParsed.build, previousParsed.build) THEN 1
             ELSE IF JsLT(currentParsed.build, previousParsed.build) THEN -1
             ELSE 0

\* a call that was not made
noCall == [raised |-> FALSE, value |-> 0]

\* the outcome of compareVersions(current, previous): raised, or its value
Call(current, previous) ==
  IF compareRaises(current, previous) THEN [raised |-> TRUE, value |-> 0]
  ELSE [raised |-> FALSE, value |-> compareVersions(current, previous)]

(***************************************************************************)
(* generateNextVersion                                                     *)
(***************************************************************************)
\* x + 1 for a number
Plus1(x) == IF x.nan THEN NaN ELSE Num(x.n + 1)

Fmt4(major, minor, patch, build) ==
  ToStr(major) \o <<".">> \o ToStr(minor) \o <<".">> \o ToStr(patch)
    \o <<"+">> \o ToStr(build)

generateNextVersion(previousVersion) ==
  LET parsed == parseFlutterVersion(previousVersion)
  IN IF parsed = nullParsed THEN Fmt4(Num(1), Num(0), Num(0), Num(1))
     ELSE LET newPatch == Plus1(parsed.patch)
              newBuild == Plus1(parsed.build)
          IN Fmt4(parsed.major, parsed.minor, newPatch, newBuild)

(***************************************************************************)
(* git tag --sort=-version:refname: git's versioncmp (glibc's strverscmp   *)
(* state machine), applied to tag names.                                   *)
(***************************************************************************)
Code(c) ==
  IF IsDigit(c) THEN 48 + DigitVal(c)
  ELSE CASE c = "NUL" -> 0
         [] c = "+"   -> 43
         [] c = "."   -> 46
         [] c = "N"   -> 78
         [] c = "a"   -> 97
         [] c = "n"   -> 110
         [] c = "o"   -> 111
         [] c = "e"   -> 101
         [] c = "v"   -> 118
         [] c = "x"   -> 120

\* the character at 0-based position i of a NUL-terminated string
CharAt(s, i) == IF i + 1 <= Len(s) THEN s[i + 1] ELSE "NUL"

\* 0 for a non-digit, 1 for a digit 1..9, 2 for the digit 0
CharClass(c) == IF c = "0" THEN 2 ELSE IF IsDigit(c) THEN 1 ELSE 0

\* states S_N = 0, S_I = 3, S_F = 6, S_Z = 9, plus the class of the character
next_state == <<0, 3, 9,   0, 3, 3,   0, 6, 6,   0, 6, 9>>

\* "CMP" compares the differing characters, "LEN" the lengths of the digit runs
result_type ==
  <<"CMP", "CMP", "CMP", "CMP", "LEN", "CMP", "CMP", "CMP", "CMP",
    "CMP", "LT",  "LT",  "GT",  "LEN", "LEN", "GT",  "LEN", "LEN",
    "CMP", "CMP", "CMP", "CMP", "CMP", "CMP", "CMP", "CMP", "CMP",
    "CMP", "GT",  "GT",  "LT",  "CMP", "CMP", "LT",  "CMP", "CMP">>

Sign(d) == IF d > 0 THEN 1 ELSE IF d < 0 THEN -1 ELSE 0

\* the LEN case: the longer run of digits is the larger number
RECURSIVE lenCompare(_, _, _, _)
lenCompare(s1, s2, i, diff) ==
  IF IsDigit(CharAt(s1, i))
  THEN IF ~IsDigit(CharAt(s2, i)) THEN 1 ELSE lenCompare(s1, s2, i + 1, diff)
  ELSE IF IsDigit(CharAt(s2, i)) THEN -1 ELSE Sign(diff)

RECURSIVE versioncmpFrom(_, _, _, _)
versioncmpFrom(s1, s2, i, state) ==
  LET c1   == CharAt(s1, i)
      c2   == CharAt(s2, i)
      diff == Code(c1) - Code(c2)
  IN IF diff = 0
     THEN IF c1 = "NUL" THEN 0
          ELSE versioncmpFrom(s1, s2, i + 1,
                 next_state[state + 1] + CharClass(CharAt(s1, i + 1)))
     ELSE LET res == result_type[(state * 3) + CharClass(c2) + 1]
          IN CASE res = "CMP" -> Sign(diff)
               [] res = "LEN" -> lenCompare(s1, s2, i + 1, diff)
               [] res = "LT"  -> -1
               [] res = "GT"  -> 1

versioncmp(s1, s2) == versioncmpFrom(s1, s2, 0, CharClass(CharAt(s1, 0)))

\* the first line of the sorted listing; null for an empty listing
FirstOfSorted(names) ==
  IF names = {} THEN null
  ELSE CHOOSE t \in names : \A u \in names : versioncmp(t, u) >= 0

(***************************************************************************)
(* The inputs of the model: version strings a manifest can declare, and    *)
(* tag names a repository can hold before the first run.                   *)
(***************************************************************************)
V4(a, b, c, d) == Fmt4(Num(a), Num(b), Num(c), Num(d))

\* well-formed major.minor.patch+build strings
WellFormed == {V4(1, 0, 0, 0), V4(1, 0, 0, 1), V4(1, 0, 1, 0)}

\* strings with a missing, non-numeric or prefixed component
Malformed ==
  { <<"1", ".", "0", ".", "0">>,                       \* no build counter
    <<"1", ".", "0", ".", "0", "+", "x">>,             \* non-numeric build
    <<"1", ".", "0", "+", "1">>,                       \* two base components
    <<"v", "1", ".", "0", ".", "0", "+", "1">> }       \* prefixed base

\* the version strings a manifest declares
Versions == WellFormed \cup Malformed

\* pubspec.yaml does not exist
noFile == <<"ENOENT">>

\* what the manifest can hold: a version, an empty version, no version
\* field (or an unreadable file), or no file at all
ManifestValues == Versions \cup {<<>>, null, noFile}

TagName(version) == <<"v">> \o version

\* tag names present before the first run
InitTagNames ==
  {TagName(v) : v \in Versions} \cup {V4(1, 1, 0, 0)}

Tag(name, at) == [name |-> name, at |-> at]

Names(tags) == {t.name : t \in tags}

Runners == {1, 2}

(***************************************************************************)
(* State.  The remote repository (its tags, the length of the branch and   *)
(* the manifest at its head) is shared; loc[r] is the workspace and the    *)
(* position of run r.                                                      *)
(***************************************************************************)
VARIABLES remoteTags, branchLen, branchManifest, tokenGiven, ignored,
          runsStarted, loc, fn

vars == <<remoteTags, branchLen, branchManifest, tokenGiven, ignored,
          runsStarted, loc, fn>>

\* tokenGiven: the token input is set.  ignored: pubspec.yaml is untracked
\* and matched by .gitignore (an earlier step of the workflow generates it
\* from the branch's content).  fn: the calls of the version functions
\* (specification SpecFn).
env == <<tokenGiven, ignored, fn>>

remote == <<remoteTags, branchLen, branchManifest>>

\* loc[r].lookup is how getLatestTag went: "none" (not called), "ok",
\* "fetchFailed" (git fetch --tags exited non-zero) or "listFailed" (git tag
\* did).  loc[r].prior is the version the previous run released by a bump
\* (written, committed, pushed and tagged), null when it released none.
\* loc[r].priorPartial is the version whose commit the previous run pushed
\* before it failed without pushing the tag, null when there is none.
\* loc[r].priorTag is the version whose tag the previous run created and
\* pushed before it ended without failure, null when it pushed none.
\* loc[r].otherDirty: files other than pubspec.yaml have pending changes;
\* loc[r].staged / stagedOther: the index holds a change of pubspec.yaml /
\* of those other files.  loc[r].cited is the 'Previous version' of the commit message of the
\* commit the run made.

\* core.setOutput was never called
noOutputs == [previous |-> null, current |-> null, updated |-> "unset", new |-> null]

idleRun ==
  [pc |-> "idle", wt |-> null, headManifest |-> null, base |-> 0, head |-> 0,
   localTags |-> {}, otherDirty |-> FALSE, staged |-> FALSE,
   stagedOther |-> FALSE,
   currentVersion |-> null, previousTagVersion |-> null, newVersion |-> null,
   tagVersion |-> null, scenario |-> "NONE", outputs |-> noOutputs,
   log |-> <<>>, lookup |-> "none", prior |-> null, cited |-> null,
   priorPartial |-> null, priorTag |-> null]

\* no call of a version function was made
fnIdle ==
  [pc |-> "idle", x |-> null, y |-> null, z |-> null, parsed |-> nullParsed,
   next |-> null, cmpNext |-> noCall, cmp |-> <<>>]

Init ==
  /\ branchManifest \in ManifestValues
  /\ branchLen = 1
  /\ \E names \in SUBSET InitTagNames :
       /\ Cardinality(names) <= 2
       /\ remoteTags = {Tag(n, 1) : n \in names}
  /\ tokenGiven \in BOOLEAN
  /\ ignored \in BOOLEAN
  /\ runsStarted = 0
  /\ loc = [r \in Runners |-> idleRun]
  /\ fn = fnIdle

\* loc with the fields of run r changed as the record upd says
Set(r, upd) ==
  [loc EXCEPT ![r] = [f \in DOMAIN loc[r] |->
                        IF f \in DOMAIN upd THEN upd[f] ELSE loc[r][f]]]

Fail(r) == Set(r, [pc |-> "failed"])

Logged(r, event) == Append(loc[r].log, event)

(***************************************************************************)
(* getCurrentVersion and getLatestTag                                      *)
(***************************************************************************)
\* getCurrentVersion without the || null
getCurrentVersionAsRead(content) == content

\* doc.version || null; null as well when the file cannot be read
getCurrentVersion(content) == IF Falsy(content) THEN null ELSE content

\* s without its leading characters that are not digits
RECURSIVE dropNonDigits(_)
dropNonDigits(s) ==
  IF s = <<>> \/ IsDigit(s[1]) THEN s ELSE dropNonDigits(Tail(s))

\* latestTag.startsWith('v') ? latestTag.substring(1) : latestTag
stripPrefix(latestTag) ==
  IF latestTag # <<>> /\ latestTag[1] = "v" THEN Tail(latestTag) ELSE latestTag

\* the result of getLatestTag when both git commands succeed
getLatestTag(tags) ==
  LET latestTag == FirstOfSorted(Names(tags))
  IN IF Falsy(latestTag) THEN null ELSE stripPrefix(latestTag)

(***************************************************************************)
(* A run of the action, step by step.  Every git command that is run with  *)
(* throwOnError can fail; a failure ends the run in run()'s catch          *)
(* (core.setFailed).                                                       *)
(***************************************************************************)
\* the version run r has released by a bump, null when it has not
released(r) ==
  IF /\ loc[r].pc = "done"
     /\ loc[r].scenario \in {"SAME", "REGRESSED"}
     /\ \E i \in DOMAIN loc[r].log : loc[r].log[i] = "pushtag"
  THEN loc[r].newVersion
  ELSE null

\* the version run r has committed and pushed before it failed without
\* pushing the tag, null when that is not how it ended
pushedUntagged(r) ==
  IF /\ loc[r].pc = "failed"
     /\ \E i \in DOMAIN loc[r].log : loc[r].log[i] = "push"
     /\ \A i \in DOMAIN loc[r].log : loc[r].log[i] # "pushtag"
  THEN loc[r].newVersion
  ELSE null

\* the version whose tag run r has created and pushed, null when it has
\* pushed none or has failed
taggedBy(r) ==
  IF /\ loc[r].pc = "done"
     /\ \E i \in DOMAIN loc[r].log : loc[r].log[i] = "pushtag"
  THEN loc[r].tagVersion
  ELSE null

\* the workflow is triggered: a fresh checkout of the branch with its tags
StartRun(r) ==
  /\ loc[r].pc \in {"idle", "done", "failed"}
  /\ runsStarted < MaxRuns
  /\ runsStarted' = runsStarted + 1
  /\ \E dirty \in BOOLEAN :
       loc' = [loc EXCEPT ![r] =
                 [idleRun EXCEPT !.pc = "validate",
                                 !.wt = branchManifest,
                                 !.headManifest = branchManifest,
                                 !.base = branchLen,
                                 !.head = branchLen,
                                 !.localTags = remoteTags,
                                 !.otherDirty = dirty,
                                 !.prior = released(r),
                                 !.priorPartial = pushedUntagged(r),
                                 !.priorTag = taggedBy(r)]]
  /\ UNCHANGED <<remote, env>>

\* token, pubspec.yaml and its version field are validated
Validate(r) ==
  /\ loc[r].pc = "validate"
  /\ IF ~tokenGiven \/ loc[r].wt = noFile
        \/ getCurrentVersion(loc[r].wt) = null
     THEN loc' = Fail(r)
     ELSE loc' = Set(r, [pc |-> "fetch",
                         currentVersion |-> getCurrentVersion(loc[r].wt)])
  /\ UNCHANGED <<remote, env, runsStarted>>

\* git fetch --tags, its exit code ignored
FetchTags(r) ==
  /\ loc[r].pc = "fetch"
  /\ \/ loc' = Set(r, [pc |-> "list", lookup |-> "ok",
                       localTags |-> loc[r].localTags \cup
                          {t \in remoteTags : t.name \notin Names(loc[r].localTags)}])
     \/ loc' = Set(r, [pc |-> "list", lookup |-> "fetchFailed"])
  /\ UNCHANGED <<remote, env, runsStarted>>

\* git tag --sort=-version:refname; a failure yields null
ListTags(r) ==
  /\ loc[r].pc = "list"
  /\ \/ loc' = Set(r, [pc |-> "decide",
                       previousTagVersion |-> getLatestTag(loc[r].localTags)])
     \/ loc' = Set(r, [pc |-> "decide", previousTagVersion |-> null,
                       lookup |-> "listFailed"])
  /\ UNCHANGED <<remote, env, runsStarted>>

\* the scenario chosen by run() for a declared version and a latest tag
Scenario(currentVersion, previousTagVersion) ==
  IF Falsy(previousTagVersion) THEN "BOOTSTRAP"
  ELSE IF compareRaises(currentVersion, previousTagVersion) THEN "RAISED"
  ELSE IF compareVersions(currentVersion, previousTagVersion) = 0 THEN "SAME"
  ELSE IF compareVersions(currentVersion, previousTagVersion) < 0 THEN "REGRESSED"
  ELSE "AHEAD"

\* needsBump with AHEAD taken for a bump scenario
needsBumpUnlessFirst(scenario) == scenario # "BOOTSTRAP"

\* the scenarios that rewrite the manifest
needsBump(scenario) == scenario \in {"SAME", "REGRESSED"}

\* NewVersion computed from the manifest at the head of the remote branch
NewVersionOfBranch(scenario, currentVersion, previousTagVersion) ==
  generateNextVersion(branchManifest)

\* the version written to the manifest in a bump scenario
NewVersion(scenario, currentVersion, previousTagVersion) ==
  IF scenario = "SAME" THEN generateNextVersion(currentVersion)
  ELSE generateNextVersion(previousTagVersion)

Decide(r) ==
  /\ loc[r].pc = "decide"
  /\ LET cur == loc[r].currentVersion
         prv == loc[r].previousTagVersion
         sc  == Scenario(cur, prv)
     IN \/ /\ sc # "RAISED"
           /\ ~needsBump(sc)
           /\ loc' = Set(r, [pc |-> "tag_cfg", scenario |-> sc, tagVersion |-> cur])
        \/ /\ sc # "RAISED"
           /\ needsBump(sc)
           /\ loc' = Set(r, [pc |-> "write", scenario |-> sc,
                             newVersion |-> NewVersion(sc, cur, prv)])
        \/ /\ sc = "RAISED"
           /\ loc' = Fail(r)
  /\ UNCHANGED <<remote, env, runsStarted>>

\* writeFailed with the result of updatePubspecVersion not looked at
writeFailedIgnored(r) == Set(r, [pc |-> "cp_cfg"])

\* updatePubspecVersion returned false: core.setFailed and return
writeFailed(r) == Fail(r)

\* updatePubspecVersion; run() fails when it returns false
WriteManifest(r) ==
  /\ loc[r].pc = "write"
  /\ \/ loc' = Set(r, [pc |-> "cp_cfg", wt |-> loc[r].newVersion,
                       log |-> Logged(r, "write")])
     \/ loc' = writeFailed(r)
  /\ UNCHANGED <<remote, env, runsStarted>>

\* configureGit at the start of commitPushAndTag
ConfigureGitForCommit(r) ==
  /\ loc[r].pc = "cp_cfg"
  /\ \/ loc' = Set(r, [pc |-> "status"])
     \/ loc' = Fail(r)
  /\ UNCHANGED <<remote, env, runsStarted>>

\* what git status --porcelain shows: an ignored manifest is not listed
PendingChanges(r) ==
  \/ loc[r].otherDirty
  \/ loc[r].wt # loc[r].headManifest /\ ~ignored

\* statusCheck going on to createAndPushTag when nothing is pending
statusThenTag(r) ==
  IF PendingChanges(r) THEN Set(r, [pc |-> "add"])
  ELSE Set(r, [pc |-> "tag_cfg", tagVersion |-> loc[r].newVersion])

\* the state after the status check of commitPushAndTag
statusCheck(r) ==
  IF PendingChanges(r) THEN Set(r, [pc |-> "add"])
  ELSE Set(r, [pc |-> "outputs"])

\* git status --porcelain: empty output returns from commitPushAndTag
Status(r) ==
  /\ loc[r].pc = "status"
  /\ loc' = statusCheck(r)
  /\ UNCHANGED <<remote, env, runsStarted>>

\* the files git status --porcelain lists
pendingFiles(r) ==
  (IF loc[r].wt # loc[r].headManifest /\ ~ignored THEN {"pubspec.yaml"} ELSE {})
    \cup (IF loc[r].otherDirty THEN {"other"} ELSE {})

\* stagedFiles of git add -A
stagedFilesAll(r) == pendingFiles(r)

\* the files git add pubspec.yaml stages
stagedFiles(r) == pendingFiles(r) \cap {"pubspec.yaml"}

\* git add pubspec.yaml
Add(r) ==
  /\ loc[r].pc = "add"
  /\ \/ /\ ~ignored
        /\ loc' = Set(r, [pc |-> "commit",
                          staged |-> "pubspec.yaml" \in stagedFiles(r),
                          stagedOther |-> "other" \in stagedFiles(r),
                          log |-> Logged(r, "add")])
     \/ loc' = Fail(r)
  /\ UNCHANGED <<remote, env, runsStarted>>

\* the previousVersion argument run() passes to commitPushAndTag
previousVersionArg(r) ==
  IF loc[r].scenario = "SAME" THEN loc[r].currentVersion
  ELSE loc[r].previousTagVersion

\* git commit -m: commits what is staged, fails with nothing staged
Commit(r) ==
  /\ loc[r].pc = "commit"
  /\ \/ /\ loc[r].staged \/ loc[r].stagedOther
        /\ loc' = Set(r, [pc |-> "push", staged |-> FALSE,
                          stagedOther |-> FALSE,
                          otherDirty |-> loc[r].otherDirty /\ ~loc[r].stagedOther,
                          headManifest |-> IF loc[r].staged THEN loc[r].wt
                                           ELSE loc[r].headManifest,
                          head |-> loc[r].base + 1,
                          cited |-> previousVersionArg(r),
                          log |-> Logged(r, "commit")])
     \/ loc' = Fail(r)
  /\ UNCHANGED <<remote, env, runsStarted>>

\* afterPush going back to the rewrite of the manifest
afterPushWriteAgain(r) ==
  Set(r, [pc |-> "write", log |-> Logged(r, "push")])

\* the state of the run after a successful push: createAndPushTag comes next
afterPush(r) ==
  Set(r, [pc |-> "tag_cfg", tagVersion |-> loc[r].newVersion,
          log |-> Logged(r, "push")])

\* git push origin HEAD:branch: rejected unless it is a fast-forward
Push(r) ==
  /\ loc[r].pc = "push"
  /\ \/ /\ branchLen = loc[r].base
        /\ branchLen' = branchLen + 1
        /\ branchManifest' = loc[r].headManifest
        /\ loc' = afterPush(r)
        /\ UNCHANGED remoteTags
     \/ /\ loc' = Fail(r)
        /\ UNCHANGED remote
  /\ UNCHANGED <<env, runsStarted>>

\* configureGit at the start of createAndPushTag
ConfigureGitForTag(r) ==
  /\ loc[r].pc = "tag_cfg"
  /\ \/ loc' = Set(r, [pc |-> "tag_check"])
     \/ loc' = Fail(r)
  /\ UNCHANGED <<remote, env, runsStarted>>

\* existingTag with the check of the listing left out
existingTagNever(tags, tagName) == FALSE

\* the output of git tag -l tagName is not empty
existingTag(tags, tagName) == tagName \in Names(tags)

\* git tag -l tagName: an existing tag returns from createAndPushTag
TagCheck(r) ==
  /\ loc[r].pc = "tag_check"
  /\ LET tagName == TagName(loc[r].tagVersion)
     IN IF existingTag(loc[r].localTags, tagName)
        THEN loc' = Set(r, [pc |-> "outputs"])
        ELSE loc' = Set(r, [pc |-> "tag_create"])
  /\ UNCHANGED <<remote, env, runsStarted>>

\* the tags after git tag -a tagName (no -f: an existing tag is an error)
tagsAfterCreate(tags, tagName, at) == tags \cup {Tag(tagName, at)}

\* git tag -a succeeds only for a name that is not taken
canCreate(tags, tagName) == tagName \notin Names(tags)

\* git tag -a tagName
TagCreate(r) ==
  /\ loc[r].pc = "tag_create"
  /\ LET tagName == TagName(loc[r].tagVersion)
     IN \/ /\ canCreate(loc[r].localTags, tagName)
           /\ loc' = Set(r, [pc |-> "tag_push",
                             localTags |-> tagsAfterCreate(loc[r].localTags,
                                                           tagName, loc[r].head),
                             log |-> Logged(r, "tag")])
        \/ loc' = Fail(r)
  /\ UNCHANGED <<remote, env, runsStarted>>

\* git push origin tagName: rejected when the remote holds another tag of
\* that name
TagPush(r) ==
  /\ loc[r].pc = "tag_push"
  /\ LET tagName == TagName(loc[r].tagVersion)
         tag     == Tag(tagName, loc[r].head)
     IN \/ /\ \A t \in remoteTags : t.name = tagName => t = tag
           /\ remoteTags' = remoteTags \cup {tag}
           /\ loc' = Set(r, [pc |-> "outputs", log |-> Logged(r, "pushtag")])
           /\ UNCHANGED <<branchLen, branchManifest>>
        \/ /\ loc' = Fail(r)
           /\ UNCHANGED remote
  /\ UNCHANGED <<env, runsStarted>>

\* 'none', the previous-version output of the first release
none == <<"n", "o", "n", "e">>

\* outputsOf with the outputs of the AHEAD scenario in every scenario
outputsNeverUpdated(r) ==
  [previous |-> loc[r].previousTagVersion, current |-> loc[r].currentVersion,
   updated |-> "false", new |-> loc[r].currentVersion]

\* the four core.setOutput calls of the scenario
outputsOf(r) ==
  CASE loc[r].scenario = "BOOTSTRAP" ->
         [previous |-> none, current |-> loc[r].currentVersion,
          updated |-> "false", new |-> loc[r].currentVersion]
    [] loc[r].scenario \in {"SAME", "REGRESSED"} ->
         [previous |-> loc[r].previousTagVersion, current |-> loc[r].newVersion,
          updated |-> "true", new |-> loc[r].newVersion]
    [] loc[r].scenario = "AHEAD" ->
         [previous |-> loc[r].previousTagVersion, current |-> loc[r].currentVersion,
          updated |-> "false", new |-> loc[r].currentVersion]

SetOutputs(r) ==
  /\ loc[r].pc = "outputs"
  /\ loc' = Set(r, [pc |-> "done", outputs |-> outputsOf(r)])
  /\ UNCHANGED <<remote, env, runsStarted>>

Step(r) ==
  \/ StartRun(r) \/ Validate(r) \/ FetchTags(r) \/ ListTags(r) \/ Decide(r)
  \/ WriteManifest(r) \/ ConfigureGitForCommit(r) \/ Status(r) \/ Add(r)
  \/ Commit(r) \/ Push(r) \/ ConfigureGitForTag(r) \/ TagCheck(r)
  \/ TagCreate(r) \/ TagPush(r) \/ SetOutputs(r)

Next == Step(1)

Spec == Init /\ [][Next]_vars

(***************************************************************************)
(* Two workflow runs against the same remote: the steps of the two runs    *)
(* interleave freely (each run has its own runner and workspace).  The     *)
(* branch starts with a well-formed declared version and well-formed tags. *)
(***************************************************************************)
ConcVersions == {V4(1, 0, 0, 1), V4(1, 0, 1, 0)}

InitConc ==
  /\ branchManifest \in ConcVersions
  /\ branchLen = 1
  /\ \E names \in SUBSET {TagName(v) : v \in ConcVersions} :
       /\ Cardinality(names) <= 1
       /\ remoteTags = {Tag(n, 1) : n \in names}
  /\ tokenGiven = TRUE
  /\ ignored = FALSE
  /\ runsStarted = 0
  /\ loc = [r \in Runners |-> idleRun]
  /\ fn = fnIdle

NextConc == \E r \in Runners : Step(r)

SpecConc == InitConc /\ [][NextConc]_vars

(***************************************************************************)
(* The version functions called on their own: x, y and z are drawn from    *)
(* FnStrings and parseFlutterVersion, generateNextVersion and              *)
(* compareVersions are applied to them.                                    *)
(***************************************************************************)
FnWellFormed == {V4(1, 0, p, b) : p \in 0..MaxNum, b \in 0..MaxNum}

FnMalformed ==
  Malformed \cup
  { <<"1", ".", "0", ".", "9", "+", "9">>,             \* 9 becomes 10
    <<"1", ".", "x", ".", "0", "+", "1">>,             \* non-numeric minor
    <<"1", ".", "0", ".", "0", ".", "0", "+", "1">>,   \* four base components
    <<"1", ".", "0", ".", "0", "+">>,                  \* empty build counter
    <<"0", "1", ".", "0", ".", "0", "+", "1">> }       \* leading zero

FnStrings == FnWellFormed \cup FnMalformed

Slots == {"x", "y", "z"}

InitFn ==
  /\ branchManifest = null
  /\ branchLen = 1
  /\ remoteTags = {}
  /\ tokenGiven = FALSE
  /\ ignored = FALSE
  /\ runsStarted = 0
  /\ loc = [r \in Runners |-> idleRun]
  /\ \E x \in FnStrings \cup {<<>>, null}, y \in FnStrings, z \in WellFormed :
       fn = [fnIdle EXCEPT !.pc = "start", !.x = x, !.y = y, !.z = z]

notFn == <<remoteTags, branchLen, branchManifest, tokenGiven, ignored,
           runsStarted, loc>>

FnParse ==
  /\ fn.pc = "start"
  /\ fn' = [fn EXCEPT !.pc = "parsed", !.parsed = parseFlutterVersion(fn.x)]
  /\ UNCHANGED notFn

FnIncrement ==
  /\ fn.pc = "parsed"
  /\ fn' = [fn EXCEPT !.pc = "incremented", !.next = generateNextVersion(fn.x)]
  /\ UNCHANGED notFn

\* compareVersions(generateNextVersion(x), x)
FnCompareNext ==
  /\ fn.pc = "incremented"
  /\ fn' = [fn EXCEPT !.pc = "comparedNext", !.cmpNext = Call(fn.next, fn.x)]
  /\ UNCHANGED notFn

\* compareVersions on every ordered pair of x, y and z
FnCompare ==
  /\ fn.pc = "comparedNext"
  /\ fn' = [fn EXCEPT !.pc = "done",
                      !.cmp = [p \in Slots \X Slots |-> Call(fn[p[1]], fn[p[2]])]]
  /\ UNCHANGED notFn

NextFn == FnParse \/ FnIncrement \/ FnCompareNext \/ FnCompare

SpecFn == InitFn /\ [][NextFn]_vars

(***************************************************************************)
(* Properties.                                                             *)
(***************************************************************************)
Bump(r) == loc[r].scenario \in {"SAME", "REGRESSED"}

InLog(r, event) == \E i \in 1..Len(loc[r].log) : loc[r].log[i] = event

Ended(r) == loc[r].pc \in {"done", "failed"}

GREATER == [raised |-> FALSE, value |-> 1]

\* C1: a run that read a declared version takes exactly one of the four
\* scenarios: BOOTSTRAP iff there is no latest tag, otherwise SAME, REGRESSED
\* or AHEAD as compareVersions(declared, latest) is 0, negative or positive;
\* no such run ends without one of them.
C1_Claim ==
  \A r \in Runners :
    (Ended(r) /\ loc[r].currentVersion # null) =>
      LET cur == loc[r].currentVersion
          prv == loc[r].previousTagVersion
      IN /\ loc[r].scenario \in {"BOOTSTRAP", "SAME", "REGRESSED", "AHEAD"}
         /\ loc[r].scenario = "BOOTSTRAP" <=> Falsy(prv)
         /\ (~Falsy(prv) /\ ~Call(cur, prv).raised) =>
              /\ loc[r].scenario = "SAME" <=> Call(cur, prv).value = 0
              /\ loc[r].scenario = "REGRESSED" <=> Call(cur, prv).value < 0
              /\ loc[r].scenario = "AHEAD" <=> Call(cur, prv).value > 0

\* C2: a run that ends without failure in the SAME scenario has
\* generateNextVersion(declared) as its final version: the manifest holds it,
\* the change was committed and pushed, and a tag named for it exists.
C2_Claim ==
  \A r \in Runners :
    (loc[r].pc = "done" /\ loc[r].scenario = "SAME") =>
      /\ loc[r].newVersion = generateNextVersion(loc[r].currentVersion)
      /\ loc[r].wt = loc[r].newVersion
      /\ InLog(r, "commit") /\ InLog(r, "push")
      /\ TagName(loc[r].newVersion) \in Names(loc[r].localTags)

\* C3: in the REGRESSED scenario the final version is
\* generateNextVersion(latest), and it compares greater than both the latest
\* tag's version and the declared version.
C3_Claim ==
  \A r \in Runners :
    loc[r].scenario = "REGRESSED" =>
      /\ loc[r].newVersion = generateNextVersion(loc[r].previousTagVersion)
      /\ Call(loc[r].newVersion, loc[r].previousTagVersion) = GREATER
      /\ Call(loc[r].newVersion, loc[r].currentVersion) = GREATER

C4_Frame ==
  \A r \in Runners :
    loc[r].scenario \in {"BOOTSTRAP", "AHEAD"} =>
      /\ \A i \in 1..Len(loc[r].log) : loc[r].log[i] \in {"tag", "pushtag"}
      /\ loc[r].wt = loc[r].currentVersion
      /\ loc[r].wt = loc[r].headManifest
      /\ loc[r].head = loc[r].base
      /\ ~loc[r].staged
      /\ loc[r].tagVersion = loc[r].currentVersion
      /\ loc[r].pc = "done" => loc[r].outputs.current = loc[r].currentVersion

C4_Step ==
  \A r \in Runners :
    (loc'[r] # loc[r] /\ loc'[r].scenario \in {"BOOTSTRAP", "AHEAD"}) =>
      /\ UNCHANGED <<branchLen, branchManifest>>
      /\ \A t \in remoteTags' \ remoteTags :
           t.name = TagName(loc[r].currentVersion)

\* C4: in the BOOTSTRAP and AHEAD scenarios the run writes no manifest,
\* stages, commits and pushes nothing to the branch; its only write is the
\* tag named for the declared version, which is also the final version.
C4_Thm == [](C4_Frame) /\ [][C4_Step]_vars

C4_Witness ==
  \E r \in Runners :
    /\ loc[r].pc = "done"
    /\ loc[r].scenario = "AHEAD"
    /\ loc[r].log = <<"tag", "pushtag">>

\* C5: the outputs of a run that ends without failure: version-updated is
\* 'true' exactly in SAME and REGRESSED, which is exactly when the manifest was
\* written; previous-version is 'none' in BOOTSTRAP and the latest tag's
\* version otherwise; current-version is the version the manifest holds;
\* new-version equals current-version when version-updated is 'true'.
C5_Thm ==
  \A r \in Runners :
    loc[r].pc = "done" =>
      LET out == loc[r].outputs
      IN /\ out.updated \in {"true", "false"}
         /\ out.updated = "true" <=> Bump(r)
         /\ out.updated = "true" <=> InLog(r, "write")
         /\ out.previous = IF loc[r].scenario = "BOOTSTRAP" THEN none
                           ELSE loc[r].previousTagVersion
         /\ out.current = loc[r].wt
         /\ out.updated = "true" => out.new = out.current

C5_Witness ==
  \E r \in Runners :
    /\ loc[r].pc = "done"
    /\ loc[r].scenario = "REGRESSED"
    /\ loc[r].outputs.updated = "true"

\* C6: for every non-empty x, compareVersions(generateNextVersion(x), x)
\* returns 1 and does not raise.
C6_Claim ==
  (fn.pc \in {"comparedNext", "done"} /\ ~Falsy(fn.x)) => fn.cmpNext = GREATER

\* C7: in a bump scenario a tag is created and pushed only after the manifest
\* commit was made and pushed; a run that failed before its push succeeded
\* has created and pushed no tag; a tag the run created points at its pushed
\* commit.
C7_Thm ==
  \A r \in Runners :
    Bump(r) =>
      /\ \A i \in 1..Len(loc[r].log) :
           /\ loc[r].log[i] \in {"tag", "pushtag"} =>
                \E j \in 1..(i - 1) : loc[r].log[j] = "push"
           /\ loc[r].log[i] = "push" =>
                \E j \in 1..(i - 1) : loc[r].log[j] = "commit"
           /\ loc[r].log[i] = "commit" =>
                \E j \in 1..(i - 1) : loc[r].log[j] = "add"
      /\ (loc[r].pc = "failed" /\ ~InLog(r, "push")) =>
           /\ ~InLog(r, "tag") /\ ~InLog(r, "pushtag")
           /\ \A t \in remoteTags :
                t.name = TagName(loc[r].newVersion) => t.at <= loc[r].base
      /\ InLog(r, "tag") =>
           /\ Tag(TagName(loc[r].newVersion), loc[r].base + 1) \in loc[r].localTags
           /\ branchLen >= loc[r].base + 1

C7_Witness ==
  \E r \in Runners :
    /\ Bump(r)
    /\ loc[r].log = <<"write", "add", "commit", "push", "tag", "pushtag">>
    /\ loc[r].pc = "done"

\* C8: when a run ends without failure, its current-version output is the
\* version the manifest holds and a tag named 'v' + that version exists.
C8_Claim ==
  \A r \in Runners :
    loc[r].pc = "done" =>
      /\ loc[r].outputs.current = loc[r].wt
      /\ TagName(loc[r].outputs.current) \in Names(loc[r].localTags)

C9_Step ==
  \A r \in Runners :
    /\ (/\ loc[r].pc = "tag_check"
        /\ TagName(loc[r].tagVersion) \in Names(loc[r].localTags)
        /\ loc'[r] # loc[r]) =>
         /\ loc'[r].pc = "outputs"
         /\ loc'[r].localTags = loc[r].localTags
         /\ loc'[r].log = loc[r].log
         /\ remoteTags' = remoteTags
    /\ (loc[r].pc = "outputs" /\ loc'[r] # loc[r]) => loc'[r].pc = "done"
    /\ remoteTags \subseteq remoteTags'
    /\ loc'[r].pc # "validate" => loc[r].localTags \subseteq loc'[r].localTags

\* C9: for a tag name that already exists createAndPushTag creates and pushes
\* nothing and the run goes on to succeed; no step removes a tag or changes
\* the commit a tag points at (the remote's tags, and a workspace's tags
\* during a run, only grow).
C9_Thm == [][C9_Step]_vars

C9_Witness ==
  \E r \in Runners :
    /\ loc[r].pc = "done"
    /\ loc[r].scenario \in {"BOOTSTRAP", "AHEAD"}
    /\ loc[r].log = <<>>
    /\ TagName(loc[r].currentVersion) \in Names(loc[r].localTags)

\* C10: a bump run that found no pending changes (and so staged and committed
\* nothing) and ended without failure has still carried out the tag step: a
\* tag named for the final version exists.
C10_Claim ==
  \A r \in Runners :
    (loc[r].pc = "done" /\ Bump(r) /\ ~InLog(r, "add")) =>
      TagName(loc[r].newVersion) \in Names(loc[r].localTags)

\* C11: a run that starts after a run that released a version by a bump (and
\* so checks out that run's commit and tag) creates no commit and no tag, and
\* when it succeeds it reports updated = false.
C11_Claim ==
  \A r \in Runners :
    loc[r].prior # null =>
      /\ ~InLog(r, "commit")
      /\ ~InLog(r, "tag")
      /\ loc[r].pc = "done" => loc[r].outputs.updated = "false"

\* run o has ended with its bump commit pushed and its tag pushed
published(o) ==
  loc[o].pc = "done" /\ InLog(o, "push") /\ InLog(o, "pushtag")

C12_Step ==
  \A r, o \in Runners :
    ( /\ r # o
      /\ published(o)
      /\ loc[r].base = loc[o].base
      /\ loc[r].currentVersion = loc[o].currentVersion
      /\ loc[r].previousTagVersion = loc[o].previousTagVersion
      /\ loc[r].pc = "push"
      /\ loc'[r] # loc[r] ) =>
        loc'[r].pc # "failed"

\* C12: of two runs started on the same commit that read the same declared
\* version and the same latest tag, the one that reaches its push after the
\* other has pushed its commit and its tag does not fail at that step.
C12_Claim == [][C12_Step]_vars

\* C13: when git fetch --tags or git tag has failed, getLatestTag has
\* returned null and the scenario the run takes is BOOTSTRAP.
C13_Claim ==
  \A r \in Runners :
    loc[r].lookup \in {"fetchFailed", "listFailed"} =>
      /\ loc[r].previousTagVersion = null
      /\ loc[r].scenario \in {"NONE", "BOOTSTRAP"}

\* the run has no token, no pubspec.yaml, or a pubspec.yaml without version
invalidInput(r) ==
  ~tokenGiven \/ loc[r].wt = noFile \/ Falsy(loc[r].wt)

\* C14: a run without token, without a readable pubspec.yaml or without a
\* declared version fails at validation: it has looked up no tags, written
\* no manifest, made no commit and no tag, pushed nothing and set no output.
C14_Thm ==
  \A r \in Runners :
    (invalidInput(r) /\ loc[r].pc \notin {"idle", "validate"}) =>
      /\ loc[r].pc = "failed"
      /\ loc[r].lookup = "none"
      /\ loc[r].previousTagVersion = null
      /\ loc[r].log = <<>>
      /\ loc[r].wt = loc[r].headManifest
      /\ loc[r].head = loc[r].base
      /\ branchLen = loc[r].base
      /\ loc[r].localTags = remoteTags
      /\ loc[r].outputs = noOutputs

C14_Witness ==
  \E r \in Runners :
    /\ loc[r].pc = "failed"
    /\ tokenGiven
    /\ loc[r].wt = <<>>
    /\ remoteTags # {}

\* C15: a bump run whose manifest rewrite failed is failed there: the
\* manifest is unchanged, nothing was staged, committed, pushed or tagged,
\* and no output is set.
C15_Thm ==
  \A r \in Runners :
    (Bump(r) /\ loc[r].pc # "write" /\ ~InLog(r, "write")) =>
      /\ loc[r].pc = "failed"
      /\ loc[r].log = <<>>
      /\ loc[r].wt = loc[r].headManifest
      /\ loc[r].head = loc[r].base
      /\ branchLen = loc[r].base
      /\ branchManifest = loc[r].headManifest
      /\ loc[r].localTags = remoteTags
      /\ loc[r].outputs = noOutputs

C15_Witness ==
  \E r \in Runners :
    /\ Bump(r)
    /\ loc[r].pc = "failed"
    /\ loc[r].log = <<>>
    /\ loc[r].newVersion # loc[r].wt

\* C16: every call compareVersions(a, b) returns 1, 0 or -1 without raising,
\* whatever the shape of a and b, and returns 0 when a or b is null or empty.
C16_Claim ==
  fn.pc = "done" =>
    \A p \in Slots \X Slots :
      /\ ~fn.cmp[p].raised
      /\ fn.cmp[p].value \in {-1, 0, 1}
      /\ (Falsy(fn[p[1]]) \/ Falsy(fn[p[2]])) => fn.cmp[p].value = 0

\* the numbers of a parsed version are all integers
integerTuple(parsed) ==
  ~parsed.major.nan /\ ~parsed.minor.nan /\ ~parsed.patch.nan /\ ~parsed.build.nan

\* (major, minor, patch, build) of a parsed version
tupleOf(parsed) ==
  <<parsed.major.n, parsed.minor.n, parsed.patch.n, parsed.build.n>>

\* lexicographic comparison of two tuples of four integers
lexCompare(s, t) ==
  IF s = t THEN 0
  ELSE LET i == CHOOSE i \in 1..4 : s[i] # t[i] /\ \A j \in 1..(i - 1) : s[j] = t[j]
       IN IF s[i] > t[i] THEN 1 ELSE -1

\* C17: for non-empty a and b, the parsed (major, minor, patch, build) are
\* integers and compareVersions(a, b) returns the lexicographic comparison of
\* the two tuples.
C17_Claim ==
  fn.pc = "done" =>
    \A p \in Slots \X Slots :
      (~Falsy(fn[p[1]]) /\ ~Falsy(fn[p[2]])) =>
        LET a == parseFlutterVersion(fn[p[1]])
            b == parseFlutterVersion(fn[p[2]])
        IN /\ integerTuple(a) /\ integerTuple(b)
           /\ fn.cmp[p] = [raised |-> FALSE,
                           value  |-> lexCompare(tupleOf(a), tupleOf(b))]

EQUAL == [raised |-> FALSE, value |-> 0]

LESS == [raised |-> FALSE, value |-> -1]

\* C18: compareVersions is a total preorder on the non-empty strings:
\* compareVersions(a, a) is 0; compareVersions(a, b) is 1 exactly when
\* compareVersions(b, a) is -1; and a >= b, b >= c give a >= c, with 0 for
\* a, c when both are 0.
C18_Claim ==
  (fn.pc = "done" /\ ~Falsy(fn.x)) =>
    /\ \A a \in Slots : fn.cmp[<<a, a>>] = EQUAL
    /\ \A a, b \in Slots : fn.cmp[<<a, b>>] = GREATER <=> fn.cmp[<<b, a>>] = LESS
    /\ \A a, b, c \in Slots :
         /\ (fn.cmp[<<a, b>>] \in {GREATER, EQUAL} /\ fn.cmp[<<b, c>>] \in {GREATER, EQUAL})
              => fn.cmp[<<a, c>>] \in {GREATER, EQUAL}
         /\ (fn.cmp[<<a, b>>] = EQUAL /\ fn.cmp[<<b, c>>] = EQUAL)
              => fn.cmp[<<a, c>>] = EQUAL

\* C19: parseFlutterVersion returns null exactly for a null or empty string;
\* for every other string, however malformed, it returns an object whose
\* full is the string, whose base is the part before the first '+', and
\* whose major, minor and patch are numbers.
C19_Thm ==
  fn.pc \notin {"idle", "start"} =>
    /\ fn.parsed = nullParsed <=> Falsy(fn.x)
    /\ ~Falsy(fn.x) =>
         /\ fn.parsed.full = fn.x
         /\ fn.parsed.base # null
         /\ fn.parsed.base \o SubSeq(fn.x, Len(fn.parsed.base) + 1, Len(fn.x)) = fn.x
         /\ \A i \in 1..Len(fn.parsed.base) : fn.parsed.base[i] # "+"
         /\ Len(fn.parsed.base) < Len(fn.x) => fn.x[Len(fn.parsed.base) + 1] = "+"
         /\ ~fn.parsed.major.nan /\ ~fn.parsed.minor.nan /\ ~fn.parsed.patch.nan

C19_Witness ==
  /\ fn.pc = "parsed"
  /\ fn.x = <<"1", ".", "x", ".", "0", "+", "1">>
  /\ fn.parsed # nullParsed
  /\ fn.parsed.minor = Num(0)

\* C20: for a non-empty string each of major, minor, patch and build of the
\* parsed version is a non-negative integer (never NaN), and a component that
\* is absent or does not start with a digit is 0.
C20_Claim ==
  (fn.pc \notin {"idle", "start"} /\ ~Falsy(fn.x)) =>
    LET parts     == split(fn.x, "+")
        baseParts == split(parts[1], ".")
        numeric(s) == ~Falsy(s) /\ IsDigit(s[1])
    IN /\ integerTuple(fn.parsed)
       /\ \A i \in 1..4 : tupleOf(fn.parsed)[i] >= 0
       /\ ~numeric(At(baseParts, 0)) => fn.parsed.major = Num(0)
       /\ ~numeric(At(baseParts, 1)) => fn.parsed.minor = Num(0)
       /\ ~numeric(At(baseParts, 2)) => fn.parsed.patch = Num(0)
       /\ ~numeric(At(parts, 1)) => fn.parsed.build = Num(0)

\* '1.0.0+1', the version generateNextVersion gives for no version
firstVersion == <<"1", ".", "0", ".", "0", "+", "1">>

\* C21: for a non-empty x, generateNextVersion(x) is the version whose
\* major and minor are those of the parsed x and whose patch and build are
\* the parsed patch and build plus one, all four integers;
\* generateNextVersion of null or '' is '1.0.0+1'.
C21_Claim ==
  fn.pc \in {"incremented", "comparedNext", "done"} =>
    IF Falsy(fn.x) THEN fn.next = firstVersion
    ELSE LET p == fn.parsed
             q == parseFlutterVersion(fn.next)
         IN /\ integerTuple(p) /\ integerTuple(q)
            /\ q.major = p.major /\ q.minor = p.minor
            /\ q.patch = Num(p.patch.n + 1)
            /\ q.build = Num(p.build.n + 1)
            /\ fn.next = Fmt4(q.major, q.minor, q.patch, q.build)

\* run r has chosen its scenario
decided(r) == loc[r].scenario # "NONE"

baseOf(parsed) ==
  ToStr(parsed.major) \o <<".">> \o ToStr(parsed.minor) \o <<".">>
    \o ToStr(parsed.patch)

\* C23: for a non-empty string the parsed base is the string
\* major.minor.patch of the parsed numbers, and the parsed full string is
\* that base, alone or followed by '+' and the parsed build.
C23_Claim ==
  (fn.pc \notin {"idle", "start"} /\ ~Falsy(fn.x)) =>
    /\ fn.parsed.base = baseOf(fn.parsed)
    /\ \/ fn.parsed.full = fn.parsed.base
       \/ fn.parsed.full = fn.parsed.base \o <<"+">> \o ToStr(fn.parsed.build)

\* C24: the 'Previous version' cited in the commit message of a bump run is
\* the version of the latest tag, the value the run reports as
\* previous-version.
C24_Claim ==
  \A r \in Runners :
    (Bump(r) /\ InLog(r, "commit")) =>
      /\ loc[r].cited = loc[r].previousTagVersion
      /\ loc[r].pc = "done" => loc[r].cited = loc[r].outputs.previous

\* the step of run r is a listing of the tags that succeeded and found a tag
listed(r) ==
  /\ loc[r].pc = "list"
  /\ loc'[r].pc = "decide"
  /\ loc'[r].lookup # "listFailed"
  /\ Names(loc[r].localTags) # {}

\* C25 as stated: the version getLatestTag returns is the name of the latest
\* tag without its whole leading run of non-digit characters.
C25_Step ==
  \A r \in Runners :
    listed(r) =>
      loc'[r].previousTagVersion =
        dropNonDigits(FirstOfSorted(Names(loc[r].localTags)))

C25_AmendedStep ==
  \A r \in Runners :
    listed(r) =>
      LET latestTag == FirstOfSorted(Names(loc[r].localTags))
          version   == loc'[r].previousTagVersion
      IN \/ latestTag = <<"v">> \o version
         \/ latestTag[1] # "v" /\ latestTag = version

baseGreater(a, b) ==
  LET x == parseFlutterVersion(a).base
      y == parseFlutterVersion(b).base
  IN SemverValid(x) /\ SemverValid(y) /\ semverCompare(x, y) > 0

C26_Step ==
  \A r \in Runners :
    listed(r) =>
      \A t \in Names(loc[r].localTags) :
        ~baseGreater(stripPrefix(t), loc'[r].previousTagVersion)

\* C26: when the listing of the tags succeeds and finds tags, no existing
\* tag has a version whose major.minor.patch is above that of the version
\* getLatestTag returns.
C26_Claim == [][C26_Step]_vars

\* how often event occurs in the log of run r
Times(r, event) ==
  Cardinality({i \in 1..Len(loc[r].log) : loc[r].log[i] = event})

\* C27: a run creates at most one tag (and pushes at most one) and writes
\* the manifest at most once; it writes it only in the SAME and REGRESSED
\* scenarios, and a run of these scenarios that is past its write step
\* without having failed there has written it exactly once.
C27_Thm ==
  \A r \in Runners :
    /\ Times(r, "tag") <= 1
    /\ Times(r, "pushtag") <= 1
    /\ Times(r, "write") <= 1
    /\ InLog(r, "write") => Bump(r)
    /\ (Bump(r) /\ loc[r].pc \notin {"write", "failed"}) => Times(r, "write") = 1
    /\ (Bump(r) /\ loc[r].pc = "failed" /\ loc[r].log # <<>>) => Times(r, "write") = 1

C27_Witness ==
  \E r \in Runners :
    /\ loc[r].pc = "done"
    /\ Bump(r)
    /\ Times(r, "write") = 1
    /\ Times(r, "tag") = 1
    /\ Times(r, "pushtag") = 1

\* no change of a file other than pubspec.yaml is in the index
C28_Index == \A r \in Runners : ~loc[r].stagedOther

\* a commit takes the staged pubspec.yaml and leaves the pending changes of
\* the other files pending
C28_Step ==
  \A r \in Runners :
    (loc[r].pc = "commit" /\ loc'[r].pc = "push") =>
      /\ loc[r].staged
      /\ loc'[r].headManifest = loc[r].wt
      /\ loc'[r].otherDirty = loc[r].otherDirty

C29_Claim ==
  \A r \in Runners :
    (loc[r].pc = "done" /\ loc[r].lookup = "ok" /\ InLog(r, "tag")) =>
      \A t \in Names(loc[r].localTags) \ {TagName(loc[r].tagVersion)} :
        ~compareRaises(loc[r].tagVersion, stripPrefix(t)) =>
          compareVersions(loc[r].tagVersion, stripPrefix(t)) = 1

\* C30: the run that follows a bump run which pushed its commit and then
\* failed before pushing its tag, and whose tag lookup succeeds, takes AHEAD,
\* writes and commits nothing, and when it ends without failure the tag of
\* the bumped version is on the remote.
C30_Claim ==
  \A r \in Runners :
    (loc[r].priorPartial # null /\ loc[r].lookup = "ok"
       /\ loc[r].pc \notin {"idle", "validate", "fetch", "list", "decide"}) =>
      /\ loc[r].scenario = "AHEAD"
      /\ ~InLog(r, "write")
      /\ ~InLog(r, "commit")
      /\ loc[r].pc = "done" =>
           /\ loc[r].tagVersion = loc[r].priorPartial
           /\ TagName(loc[r].priorPartial) \in Names(remoteTags)

C31_Step ==
  \A r \in Runners :
    ( /\ listed(r)
      /\ loc[r].priorTag # null
      /\ FirstOfSorted(Names(loc[r].localTags)) = TagName(loc[r].priorTag) ) =>
        /\ loc'[r].previousTagVersion = loc[r].priorTag
        /\ Call(loc[r].priorTag, loc'[r].previousTagVersion) = EQUAL

\* C31: when the tag 'v' + V that the previous run created and pushed is the
\* latest tag of the next run's listing, getLatestTag returns V, and
\* compareVersions(V, returned version) is 0.
C31_Claim == [][C31_Step]_vars

\* s is a non-empty run of decimal digits
decimal(s) == s # <<>> /\ \A i \in 1..Len(s) : IsDigit(s[i])

\* s has the shape major.minor.patch+build, all four decimal integers
shapedVersion(s) ==
  LET parts == split(s, "+")
  IN /\ Len(parts) = 2
     /\ decimal(parts[2])
     /\ LET baseParts == split(parts[1], ".")
        IN Len(baseParts) = 3 /\ \A i \in 1..3 : decimal(baseParts[i])

\* C32: the version a SAME or REGRESSED run has written to the manifest, and
\* the version of the tag it has pushed, has the shape
\* major.minor.patch+build with four decimal integers.
C32_Claim ==
  \A r \in Runners :
    Bump(r) =>
      /\ InLog(r, "write") => shapedVersion(loc[r].wt)
      /\ InLog(r, "pushtag") => shapedVersion(loc[r].tagVersion)

====
